---- MODULE Spec2Model ----
(***************************************************************************)
(* Model of spaceship_game.py: the autopilot craft (Spaceship), the        *)
(* obstacles (Meteor), the near-miss tracker (GameTracker) and the tick    *)
(* loop of main().                                                         *)
(*                                                                         *)
(* Numbers.  Python floats are modelled in fixed point: a position, a      *)
(* velocity or a distance is an integer count of 1/Scale pixel, a unit     *)
(* vector component is an integer count of 1/UnitScale.  Every division    *)
(* and every hypot rounds to the nearest representable value, as the       *)
(* float operations do at their own (finer) resolution.  Time is counted   *)
(* in frame periods of the 60 Hz pacing clock: in the tick loop time.time() *)
(* is taken to advance by one period per tick; a wall clock that is set    *)
(* back is followed in the direct calls of track_frame.                    *)
(*                                                                         *)
(* Left out: rendering (draw, screen.fill, font, flip), the heading angle  *)
(* (read by draw only), Meteor.speed (read by nobody after construction),  *)
(* and failures of the file write.                                         *)
(***************************************************************************)
EXTENDS Integers, Sequences, FiniteSets, TLC

VARIABLES
    spaceship,   \* Spaceship: [x, y, velocity_x, velocity_y]
    meteors,     \* main's list of live Meteor objects, in list order
    next_id,     \* number of Meteor objects constructed so far (object identity)
    tracker,     \* GameTracker: [start_time, near_misses, danger_threshold, critical_threshold]
    running,     \* main's run status flag
    score,       \* main's tick counter
    now,         \* time.time(), in frame periods
    pc,          \* position of main(), or "call" when a client drives the objects
    auto,        \* locals of the last avoid_meteors call
    culled,      \* identities of the meteors removed from the live list so far
    file,        \* content last written to game_analytics.json, NoFile before
    effects,     \* calls made on the outside world, in order
    calls        \* methods a client has called directly, in order

vars == <<spaceship, meteors, next_id, tracker, running, score, now, pc, auto,
          culled, file, effects, calls>>

----------------------------------------------------------------------------
(* Program constants, src/spaceship_game.py:13-22.  Lengths are in pixels; *)
(* the two strengths are in 1/Scale pixel per tick (0.5 and 0.1).          *)

Scale == 100
UnitScale == 10000

WIDTH == 800
HEIGHT == 600
SPACESHIP_SIZE == 10
METEOR_SIZE == 25
MAX_SPEED == 5
DETECTION_RADIUS == 110
AVOIDANCE_STRENGTH == 50
CENTERING_STRENGTH == 10
DANGER_THRESHOLD == 50
CRITICAL_THRESHOLD == 35
WAIT_MS == 3000

Px(n) == n * Scale

----------------------------------------------------------------------------
(* Bounds of the model.                                                    *)

SpawnWindow == 2        \* a Meteor may be spawned in the first SpawnWindow ticks
MaxTicks == 800         \* ticks of the loop the model follows
MaxCalls == 3           \* direct method calls a client makes
MaxCallMeteors == 2     \* length of the list a client passes

----------------------------------------------------------------------------
(* Float arithmetic in fixed point.                                        *)

Abs(a) == IF a < 0 THEN -a ELSE a

Max2(a, b) == IF a > b THEN a ELSE b
Min2(a, b) == IF a < b THEN a ELSE b

Sign(a) == IF a < 0 THEN -1 ELSE IF a > 0 THEN 1 ELSE 0

\* a / b for b > 0, rounded to the nearest integer, halves away from zero.
DivR(a, b) == Sign(a) * ((2 * Abs(a) + b) \div (2 * b))

RECURSIVE SqrtSearch(_, _, _)
SqrtSearch(n, lo, hi) ==
    IF lo >= hi THEN lo
    ELSE LET mid == (lo + hi + 1) \div 2
         IN  IF mid * mid <= n THEN SqrtSearch(n, mid, hi)
                               ELSE SqrtSearch(n, lo, mid - 1)

\* sqrt(n) rounded to the nearest integer, given lo <= sqrt(n) <= hi.
SqrtBetween(n, lo, hi) ==
    LET r == SqrtSearch(n, lo, hi)
    IN  IF n - r * r > r THEN r + 1 ELSE r

\* sqrt(a * a + b * b) for a, b >= 0, which lies between the larger of a
\* and b and their sum.
Norm(a, b) == SqrtBetween(a * a + b * b, Max2(a, b), Min2(46340, a + b))

\* math.hypot(a, b).  Large operands are scaled down before squaring, which
\* keeps the relative precision, as a float's mantissa does.
Hypot(a, b) ==
    IF Abs(a) < 30000 /\ Abs(b) < 30000
    THEN Norm(Abs(a), Abs(b))
    ELSE 10 * Norm(Abs(a) \div 10, Abs(b) \div 10)

\* a / b as a ratio in 1/UnitScale (a unit-vector component), b > 0.
Ratio(a, b) == DivR(a * UnitScale, b)

\* ratio * strength, back in 1/Scale pixel.
Scaled(ratio, strength) == DivR(ratio * strength, UnitScale)

----------------------------------------------------------------------------
(* Spaceship                                                               *)

\* Spaceship.__init__
NewSpaceship ==
    [x |-> Px(WIDTH \div 2), y |-> Px(HEIGHT \div 2),
     velocity_x |-> 0, velocity_y |-> 0]

\* a / b raises ZeroDivisionError exactly when b is zero
Raises(b) == b = 0

\* IsThreat without the test distance > 0 of line 110.
IsThreat_NoZeroTest(distance) == distance < Px(DETECTION_RADIUS)

\* the test of line 110
IsThreat(distance) == distance < Px(DETECTION_RADIUS) /\ distance > 0

\* the tests of lines 117, 128 and 136, each guarding a division
Normalizes(length) == length > 0
HasNorm(norm) == norm # 0
OverLimit(speed) == speed > Px(MAX_SPEED)

\* the threat scan of avoid_meteors: the loop over meteors, lines 105-113.
\* Returns <<avoidance_vector[0], avoidance_vector[1], in_danger, fault>>,
\* the vector in 1/UnitScale; fault: a division of lines 112-113 raised,
\* which ends the loop.
RECURSIVE ThreatScan(_, _, _, _)
ThreatScan(ship, ms, i, acc) ==
    IF i > Len(ms) THEN acc
    ELSE LET m == ms[i]
             distance == Hypot(ship.x - m.x, ship.y - m.y)
         IN  IF IsThreat(distance)
             THEN IF Raises(distance)
                  THEN <<acc[1], acc[2], TRUE, TRUE>>
                  ELSE ThreatScan(ship, ms, i + 1,
                         <<acc[1] + Ratio(ship.x - m.x, distance),
                           acc[2] + Ratio(ship.y - m.y, distance),
                           TRUE, acc[4]>>)
             ELSE ThreatScan(ship, ms, i + 1, acc)

\* lines 116-119: the normalised avoidance vector times AVOIDANCE_STRENGTH is
\* added to the velocity v, unless the vector av has length 0.
ApplyAvoidance(v, av, length) ==
    IF Normalizes(length)
    THEN <<v[1] + Scaled(Ratio(av[1], length), AVOIDANCE_STRENGTH),
           v[2] + Scaled(Ratio(av[2], length), AVOIDANCE_STRENGTH)>>
    ELSE v

\* lines 128-132: d is the vector to the centre, divided by its norm unless
\* that is 0; d times CENTERING_STRENGTH is added to the velocity v.
AddCentering(v, d, norm) ==
    IF HasNorm(norm)
    THEN <<v[1] + Scaled(Ratio(d[1], norm), CENTERING_STRENGTH),
           v[2] + Scaled(Ratio(d[2], norm), CENTERING_STRENGTH)>>
    ELSE <<v[1] + DivR(d[1] * CENTERING_STRENGTH, Scale),
           v[2] + DivR(d[2] * CENTERING_STRENGTH, Scale)>>

\* ApplyCentering without the test of line 122: centering in every update.
ApplyCentering_Always(ship, v, in_danger) ==
    AddCentering(v,
        <<Px(WIDTH) \div 2 - ship.x, Px(HEIGHT) \div 2 - ship.y>>,
        Hypot(Px(WIDTH) \div 2 - ship.x, Px(HEIGHT) \div 2 - ship.y))

\* lines 122-132
ApplyCentering(ship, v, in_danger) ==
    IF ~in_danger
    THEN AddCentering(v,
            <<Px(WIDTH) \div 2 - ship.x, Px(HEIGHT) \div 2 - ship.y>>,
            Hypot(Px(WIDTH) \div 2 - ship.x, Px(HEIGHT) \div 2 - ship.y))
    ELSE v

\* Rescale without the test of line 136: the velocity is never limited.
Rescale_Unlimited(v, speed) == v

\* lines 136-138
Rescale(v, speed) ==
    IF OverLimit(speed)
    THEN <<DivR(Ratio(v[1], speed) * Px(MAX_SPEED), UnitScale),
           DivR(Ratio(v[2], speed) * Px(MAX_SPEED), UnitScale)>>
    ELSE v

\* lines 135-138
LimitSpeed(v) == Rescale(v, Hypot(v[1], v[2]))

\* ClampX without the min of line 148: no upper bound.
ClampX_NoUpper(x) == Max2(Px(SPACESHIP_SIZE), x)

\* lines 148-149
ClampX(x) == Max2(Px(SPACESHIP_SIZE), Min2(Px(WIDTH - SPACESHIP_SIZE), x))
ClampY(y) == Max2(Px(SPACESHIP_SIZE), Min2(Px(HEIGHT - SPACESHIP_SIZE), y))

\* lines 144-149
Move(ship, v) ==
    [x |-> ClampX(ship.x + v[1]), y |-> ClampY(ship.y + v[2]),
     velocity_x |-> v[1], velocity_y |-> v[2]]

\* Accelerate when the centering is withheld only if an avoidance impulse was
\* added, and not by in_danger.
Accelerate_CentersWithoutImpulse(ship, scan) ==
    ApplyCentering(ship,
        ApplyAvoidance(<<ship.velocity_x, ship.velocity_y>>,
                       scan, Hypot(scan[1], scan[2])),
        Hypot(scan[1], scan[2]) > 0)

\* the velocity after lines 105-132 (before the speed limit), given the
\* result of the threat scan
Accelerate(ship, scan) ==
    ApplyCentering(ship,
        ApplyAvoidance(<<ship.velocity_x, ship.velocity_y>>,
                       scan, Hypot(scan[1], scan[2])),
        scan[3])

\* values the call avoid_meteors passes through: in_danger and length (line
\* 116) after the scan, speed (line 135) before the limit, and the position
\* of lines 144-145 before it is clamped
LocalsOf(ship, scan, raw, v) ==
    [in_danger |-> scan[3],
     length |-> Hypot(scan[1], scan[2]),
     speed |-> Hypot(raw[1], raw[2]),
     unclamped |-> <<ship.x + v[1], ship.y + v[2]>>,
     fault |-> FALSE]

\* the centering of lines 125-127 divides by norm (lines 129-130)
CenteringDivides(ship, in_danger) ==
    /\ ~in_danger
    /\ HasNorm(Hypot(Px(WIDTH) \div 2 - ship.x, Px(HEIGHT) \div 2 - ship.y))

\* a division of the call raises ZeroDivisionError: in the scan (lines
\* 112-113), or at lines 118-119, 129-130 or 137-138, each reached under its
\* test with a divisor that is zero
DivisionFault(ship, scan) ==
    \/ scan[4]
    \/ Normalizes(Hypot(scan[1], scan[2])) /\ Raises(Hypot(scan[1], scan[2]))
    \/ /\ CenteringDivides(ship, scan[3])
       /\ Raises(Hypot(Px(WIDTH) \div 2 - ship.x, Px(HEIGHT) \div 2 - ship.y))

\* the division of lines 137-138 raises
RescaleFault(raw) ==
    OverLimit(Hypot(raw[1], raw[2])) /\ Raises(Hypot(raw[1], raw[2]))

\* the call left by an exception: the craft as the lines before the raise
\* left it, and fault is set
Raised(ship, scan) ==
    [ship |-> ship,
     locals |-> [in_danger |-> scan[3], length |-> 0, speed |-> 0,
                 unclamped |-> <<ship.x, ship.y>>, fault |-> TRUE]]

\* lines 135-149, given the scan and the velocity raw of lines 105-132
Finish(ship, scan, raw) ==
    IF RescaleFault(raw)
    THEN Raised([ship EXCEPT !.velocity_x = raw[1], !.velocity_y = raw[2]], scan)
    ELSE [ship |-> Move(ship, LimitSpeed(raw)),
          locals |-> LocalsOf(ship, scan, raw, LimitSpeed(raw))]

\* lines 116-149, given the result of the threat scan
AfterScan(ship, scan) ==
    IF DivisionFault(ship, scan) THEN Raised(ship, scan)
    ELSE Finish(ship, scan, Accelerate(ship, scan))

\* avoid_meteors, lines 104-149 without the heading: the craft after the
\* call (ship) and the values the call passed through (locals)
AvoidMeteors(ship, ms) ==
    AfterScan(ship, ThreatScan(ship, ms, 1, <<0, 0, FALSE, FALSE>>))

----------------------------------------------------------------------------
(* Meteor                                                                  *)

\* The draws of Meteor.__init__ the model takes: <<side, coordinate along
\* the edge (pixels), <<cos(angle), sin(angle)>> in 1/Scale, speed>>.
SpawnChoices ==
    { <<"left", 300, <<100, 0>>, 1>>,
      <<"left", 300, <<100, 0>>, 2>>,
      <<"top", 400, <<0, 100>>, 3>>,
      <<"right", 300, <<-100, 0>>, 3>>,
      <<"bottom", 100, <<60, 80>>, 3>>,
      <<"top", 390, <<0, 100>>, 3>> }

\* Meteor.__init__ with the draws c; id is the object's identity.
NewMeteor(c, id) ==
    [id |-> id,
     x |-> IF c[1] = "left" THEN 0
           ELSE IF c[1] = "right" THEN Px(WIDTH) ELSE Px(c[2]),
     y |-> IF c[1] \in {"left", "right"} THEN Px(c[2])
           ELSE IF c[1] = "top" THEN 0 ELSE Px(HEIGHT),
     velocity_x |-> c[3][1] * c[4],
     velocity_y |-> c[3][2] * c[4]]

\* MeteorUpdate when the position is kept within the field.
MeteorUpdate_Clamped(m) ==
    [m EXCEPT !.x = Max2(0, Min2(Px(WIDTH), m.x + m.velocity_x)),
              !.y = Max2(0, Min2(Px(HEIGHT), m.y + m.velocity_y))]

\* Meteor.update
MeteorUpdate(m) ==
    [m EXCEPT !.x = m.x + m.velocity_x, !.y = m.y + m.velocity_y]

\* the removal test of main, lines 221-222
OffScreen(m) ==
    \/ m.x < -Px(METEOR_SIZE)
    \/ m.x > Px(WIDTH + METEOR_SIZE)
    \/ m.y < -Px(METEOR_SIZE)
    \/ m.y > Px(HEIGHT + METEOR_SIZE)

\* Kept when the right and the bottom edge are not tested.
Kept_LeftTopOnly(m) == ~(m.x < -Px(METEOR_SIZE) \/ m.y < -Px(METEOR_SIZE))

Kept(m) == ~OffScreen(m)

\* main, lines 216-223: every meteor of the list is advanced, and removed
\* from the list when it is then off screen.
UpdateMeteors(ms) ==
    SelectSeq([i \in 1..Len(ms) |-> MeteorUpdate(ms[i])], Kept)

----------------------------------------------------------------------------
(* GameTracker                                                             *)

\* GameTracker.__init__ at time t
NewTracker(t) ==
    [start_time |-> t, near_misses |-> <<>>,
     danger_threshold |-> Px(DANGER_THRESHOLD),
     critical_threshold |-> Px(CRITICAL_THRESHOLD)]

\* IsNearMiss with <= for the danger threshold.
IsNearMiss_Inclusive(tr, distance) ==
    distance <= tr.danger_threshold /\ distance > Px(SPACESHIP_SIZE + METEOR_SIZE)

\* the test of track_frame, line 64
IsNearMiss(tr, distance) ==
    distance < tr.danger_threshold /\ distance > Px(SPACESHIP_SIZE + METEOR_SIZE)

\* NearMissEvent(...) of lines 65-72
NewEvent(current_time, distance, ship, m) ==
    [timestamp |-> current_time,
     distance |-> distance,
     ship_position |-> <<ship.x, ship.y>>,
     meteor_position |-> <<m.x, m.y>>,
     ship_velocity |-> <<ship.velocity_x, ship.velocity_y>>,
     meteor_velocity |-> <<m.velocity_x, m.velocity_y>>]

RECURSIVE ScanMeteors(_, _, _, _, _)
ScanMeteors(tr, ship, ms, i, current_time) ==
    IF i > Len(ms) THEN tr
    ELSE LET m == ms[i]
             distance == Hypot(ship.x - m.x, ship.y - m.y)
         IN  IF IsNearMiss(tr, distance)
             THEN ScanMeteors(
                    [tr EXCEPT !.near_misses =
                        Append(@, NewEvent(current_time, distance, ship, m))],
                    ship, ms, i + 1, current_time)
             ELSE ScanMeteors(tr, ship, ms, i + 1, current_time)

\* TrackFrame when a meteor gets one event only: nothing is appended once an
\* event is stored.
TrackFrame_OncePerMeteor(tr, ship, ms, t) ==
    IF tr.near_misses # <<>> THEN tr
    ELSE ScanMeteors(tr, ship, ms, 1, t - tr.start_time)

\* GameTracker.track_frame called at time t
TrackFrame(tr, ship, ms, t) ==
    ScanMeteors(tr, ship, ms, 1, t - tr.start_time)

\* the severity expression of save_analytics, line 87
Severity(tr, event) ==
    IF event.distance < tr.critical_threshold THEN "CRITICAL" ELSE "WARNING"

\* one entry of the report's near_misses list, lines 80-88
ReportEntry(tr, event) ==
    [timestamp |-> event.timestamp,
     distance |-> event.distance,
     ship_position |-> event.ship_position,
     meteor_position |-> event.meteor_position,
     ship_velocity |-> event.ship_velocity,
     meteor_velocity |-> event.meteor_velocity,
     severity |-> Severity(tr, event)]

\* the analytics dict of save_analytics built at time t, lines 76-91
Analytics(tr, t) ==
    [total_runtime |-> t - tr.start_time,
     total_near_misses |-> Len(tr.near_misses),
     near_misses |-> [i \in 1..Len(tr.near_misses) |->
                        ReportEntry(tr, tr.near_misses[i])]]

\* SaveAnalytics when the report's events are dropped once written.
SaveAnalytics_Flush(tr) == [tr EXCEPT !.near_misses = <<>>]

\* the tracker after save_analytics
SaveAnalytics(tr) == tr

NoFile == [total_runtime |-> -1, total_near_misses |-> -1, near_misses |-> <<>>]

NoLocals ==
    [in_danger |-> FALSE, length |-> 0, speed |-> 0, unclamped |-> <<0, 0>>,
     fault |-> FALSE]

----------------------------------------------------------------------------
(* main()                                                                  *)

\* Collides when the danger threshold is taken for the collision distance.
Collides_WithinDanger(ship, ms) ==
    \E i \in 1..Len(ms) :
        Hypot(ship.x - ms[i].x, ship.y - ms[i].y) < Px(DANGER_THRESHOLD)

\* the collision test of main, lines 233-236
Collides(ship, ms) ==
    \E i \in 1..Len(ms) :
        Hypot(ship.x - ms[i].x, ship.y - ms[i].y) < Px(SPACESHIP_SIZE + METEOR_SIZE)

Effect(fn, arg) == [fn |-> fn, arg |-> arg]

\* main, lines 200-206
Init ==
    /\ spaceship = NewSpaceship
    /\ meteors = <<>>
    /\ next_id = 0
    /\ tracker = NewTracker(0)
    /\ running = TRUE
    /\ score = 0
    /\ now = 0
    /\ pc = "spawn"
    /\ auto = NoLocals
    /\ culled = {}
    /\ file = NoFile
    /\ effects = <<>>
    /\ calls = <<>>

\* lines 212-213, random.random() < 0.05: a Meteor is appended
SpawnMeteor ==
    /\ pc = "spawn"
    /\ score < SpawnWindow
    /\ \E c \in SpawnChoices :
          meteors' = Append(meteors, NewMeteor(c, next_id + 1))
    /\ next_id' = next_id + 1
    /\ pc' = "update"
    /\ UNCHANGED <<spaceship, tracker, running, score, now, auto, culled, file,
                   effects, calls>>

\* lines 212-213, random.random() >= 0.05
NoSpawn ==
    /\ pc = "spawn"
    /\ pc' = "update"
    /\ UNCHANGED <<spaceship, meteors, next_id, tracker, running, score, now,
                   auto, culled, file, effects, calls>>

\* lines 216-223
UpdateStep ==
    /\ pc = "update"
    /\ meteors' = UpdateMeteors(meteors)
    /\ culled' = culled \cup
          ({meteors[i].id : i \in 1..Len(meteors)}
             \ {meteors'[i].id : i \in 1..Len(meteors')})
    /\ pc' = "avoid"
    /\ UNCHANGED <<spaceship, next_id, tracker, running, score, now, auto, file,
                   effects, calls>>

\* line 226; an exception of the call leaves main (pc "raised")
AvoidStep ==
    /\ pc = "avoid"
    /\ LET r == AvoidMeteors(spaceship, meteors)
       IN  /\ spaceship' = r.ship
           /\ auto' = r.locals
           /\ pc' = IF r.locals.fault THEN "raised" ELSE "track"
    /\ UNCHANGED <<meteors, next_id, tracker, running, score, now, culled, file,
                   effects, calls>>

\* TrackStep when the collision test does not follow the scan.
TrackStep_NoCollisionTest ==
    /\ pc = "track"
    /\ tracker' = TrackFrame(tracker, spaceship, meteors, now)
    /\ pc' = "events"
    /\ UNCHANGED <<spaceship, meteors, next_id, running, score, now, auto, culled,
                   file, effects, calls>>

\* line 230
TrackStep ==
    /\ pc = "track"
    /\ tracker' = TrackFrame(tracker, spaceship, meteors, now)
    /\ pc' = "collide"
    /\ UNCHANGED <<spaceship, meteors, next_id, running, score, now, auto, culled,
                   file, effects, calls>>

\* lines 233-236
CollideStep ==
    /\ pc = "collide"
    /\ running' = IF Collides(spaceship, meteors) THEN FALSE ELSE running
    /\ pc' = "events"
    /\ UNCHANGED <<spaceship, meteors, next_id, tracker, score, now, auto, culled,
                   file, effects, calls>>

\* EventsStep when the loop does not test the run status.
EventsStep_NoLoopTest ==
    /\ pc = "events"
    /\ score < MaxTicks
    /\ score' = score + 1
    /\ \E quit \in BOOLEAN :
          running' = IF quit THEN FALSE ELSE running
    /\ now' = now + 1
    /\ pc' = "spawn"
    /\ UNCHANGED <<spaceship, meteors, next_id, tracker, auto, culled, file,
                   effects, calls>>

\* lines 239-249 and the loop test of line 208: the score, the pending
\* events (quit: a QUIT event is among them), one frame period of pacing.
EventsStep ==
    /\ pc = "events"
    /\ score < MaxTicks
    /\ score' = score + 1
    /\ \E quit \in BOOLEAN :
          running' = IF quit THEN FALSE ELSE running
    /\ now' = now + 1
    /\ pc' = IF running' THEN "spawn" ELSE "save"
    /\ UNCHANGED <<spaceship, meteors, next_id, tracker, auto, culled, file,
                   effects, calls>>

\* line 258
SaveStep ==
    /\ pc = "save"
    /\ file' = Analytics(tracker, now)
    /\ tracker' = SaveAnalytics(tracker)
    /\ effects' = Append(effects, Effect("write", 0))
    /\ pc' = "wait"
    /\ UNCHANGED <<spaceship, meteors, next_id, running, score, now, auto, culled,
                   calls>>

\* line 260
WaitStep ==
    /\ pc = "wait"
    /\ effects' = Append(effects, Effect("wait", WAIT_MS))
    /\ now' = now + (WAIT_MS * 60) \div 1000
    /\ pc' = "quit"
    /\ UNCHANGED <<spaceship, meteors, next_id, tracker, running, score, auto,
                   culled, file, calls>>

\* line 261
QuitStep ==
    /\ pc = "quit"
    /\ effects' = Append(effects, Effect("quit", 0))
    /\ pc' = "done"
    /\ UNCHANGED <<spaceship, meteors, next_id, tracker, running, score, now, auto,
                   culled, file, calls>>

Next ==
    \/ SpawnMeteor
    \/ NoSpawn
    \/ UpdateStep
    \/ AvoidStep
    \/ TrackStep
    \/ CollideStep
    \/ EventsStep
    \/ SaveStep
    \/ WaitStep
    \/ QuitStep

Spec == Init /\ [][Next]_vars

----------------------------------------------------------------------------
(* The objects driven directly: a client (a test, another module) builds   *)
(* a Spaceship, a list of Meteor objects and a GameTracker in any state    *)
(* and calls their methods in any order.                                   *)

\* craft states a client starts from
CallShips ==
    { [x |-> Px(400), y |-> Px(300), velocity_x |-> 0, velocity_y |-> 0],
      [x |-> Px(785), y |-> Px(100), velocity_x |-> 480, velocity_y |-> 0],
      [x |-> Px(100), y |-> Px(12), velocity_x |-> -300, velocity_y |-> -400] }

\* where a client puts a meteor, relative to the craft, in 1/Scale pixel
CallOffsets ==
    { <<0, 0>>, <<3499, 0>>, <<3500, 0>>, <<3501, 0>>, <<4999, 0>>, <<5000, 0>>,
      <<-4000, 0>>, <<0, 10999>>, <<0, 11000>> }

CallMeteor(ship, o) ==
    [id |-> 0, x |-> ship.x + o[1], y |-> ship.y + o[2],
     velocity_x |-> 100, velocity_y |-> -200]

CallLists(ship) ==
    UNION { [1..n -> {CallMeteor(ship, o) : o \in CallOffsets}] :
            n \in 0..MaxCallMeteors }

InitCall ==
    /\ spaceship \in CallShips
    /\ meteors \in CallLists(spaceship)
    /\ next_id = 0
    /\ tracker = NewTracker(0)
    /\ running = TRUE
    /\ score = 0
    /\ now = 0
    /\ pc = "call"
    /\ auto = NoLocals
    /\ culled = {}
    /\ file = NoFile
    /\ effects = <<>>
    /\ calls = <<>>

\* spaceship.avoid_meteors(meteors)
CallAvoidMeteors ==
    /\ pc = "call"
    /\ Len(calls) < MaxCalls
    /\ calls' = Append(calls, "avoid_meteors")
    /\ now' = now + 1
    /\ LET r == AvoidMeteors(spaceship, meteors)
       IN  spaceship' = r.ship /\ auto' = r.locals
    /\ UNCHANGED <<meteors, next_id, tracker, running, score, pc, culled, file,
                   effects>>

\* what time.time() may return to a call made one frame period after the
\* reading t: the wall clock has advanced, or it was set back meanwhile (it
\* is not monotonic).  A setback before the first stored event shifts every
\* timestamp alike, so only setbacks after one are followed.
ClockReadings(tr, t) ==
    IF tr.near_misses = <<>> THEN {t + 1} ELSE {t + 1, t - 1}

\* tracker.track_frame(spaceship, meteors)
CallTrackFrame ==
    /\ pc = "call"
    /\ Len(calls) < MaxCalls
    /\ calls' = Append(calls, "track_frame")
    /\ now' \in ClockReadings(tracker, now)
    /\ tracker' = TrackFrame(tracker, spaceship, meteors, now')
    /\ UNCHANGED <<spaceship, meteors, next_id, running, score, pc, auto, culled,
                   file, effects>>

\* tracker.save_analytics()
CallSaveAnalytics ==
    /\ pc = "call"
    /\ Len(calls) < MaxCalls
    /\ calls' = Append(calls, "save_analytics")
    /\ now' = now + 1
    /\ file' = Analytics(tracker, now')
    /\ tracker' = SaveAnalytics(tracker)
    /\ effects' = Append(effects, Effect("write", 0))
    /\ UNCHANGED <<spaceship, meteors, next_id, running, score, pc, auto, culled>>

NextCall ==
    \/ CallAvoidMeteors
    \/ CallTrackFrame
    \/ CallSaveAnalytics

SpecCall == InitCall /\ [][NextCall]_vars

----------------------------------------------------------------------------
(* tracking.py: the tracker as a module of its own, hooked into the game   *)
(* as create_game_tracker_hook describes: a tracking.GameTracker scans     *)
(* the game's Spaceship and Meteor objects.                                *)

\* obj.name exists: the attributes of a Spaceship and of a Meteor are the
\* ones their __init__ assigns, which are the fields of the model's records
\* (and angle, speed); reading another attribute raises AttributeError
HasAttr(obj, name) == name \in DOMAIN obj

\* the right operand of the test of tracking.py line 30 can be evaluated
SizesReadable(ship, m) ==
    HasAttr(ship, "SPACESHIP_SIZE") /\ HasAttr(m, "METEOR_SIZE")

\* the test of tracking.py line 30, its right operand readable
TrackingIsNearMiss(tr, ship, m, distance) ==
    distance < tr.danger_threshold
      /\ distance > ship.SPACESHIP_SIZE + m.METEOR_SIZE

\* the loop of tracking.GameTracker.track_frame, lines 26-45; raised: an
\* exception has left the call.  `and` evaluates its right operand only
\* when the left one is true.
RECURSIVE TrackingScan(_, _, _, _, _)
TrackingScan(tr, ship, ms, i, current_time) ==
    IF i > Len(ms) THEN [tracker |-> tr, raised |-> FALSE]
    ELSE LET m == ms[i]
             distance == Hypot(ship.x - m.x, ship.y - m.y)
         IN  IF distance < tr.danger_threshold /\ ~SizesReadable(ship, m)
             THEN [tracker |-> tr, raised |-> TRUE]
             ELSE IF TrackingIsNearMiss(tr, ship, m, distance)
             THEN TrackingScan(
                    [tr EXCEPT !.near_misses =
                        Append(@, NewEvent(current_time, distance, ship, m))],
                    ship, ms, i + 1, current_time)
             ELSE TrackingScan(tr, ship, ms, i + 1, current_time)

\* tracking.GameTracker.track_frame called at time t
TrackingTrackFrame(tr, ship, ms, t) ==
    TrackingScan(tr, ship, ms, 1, t - tr.start_time)

\* a game with the hook: tracker is a tracking.GameTracker
InitHook == InitCall

\* tracker.track_frame(spaceship, meteors) of tracking.py; an exception
\* leaves the client (pc "raised")
CallTrackingTrackFrame ==
    /\ pc = "call"
    /\ Len(calls) < MaxCalls
    /\ calls' = Append(calls, "tracking.track_frame")
    /\ now' \in ClockReadings(tracker, now)
    /\ LET r == TrackingTrackFrame(tracker, spaceship, meteors, now')
       IN  /\ tracker' = r.tracker
           /\ pc' = IF r.raised THEN "raised" ELSE "call"
    /\ UNCHANGED <<spaceship, meteors, next_id, running, score, auto, culled,
                   file, effects>>

NextHook ==
    \/ CallAvoidMeteors
    \/ CallTrackingTrackFrame

SpecHook == InitHook /\ [][NextHook]_vars

----------------------------------------------------------------------------
(* Claims                                                                  *)

\* one fixed-point step, the least difference of two distances
Epsilon == Scale \div 100

\* what rounding can add to the limited speed: half a step for the rounded
\* speed the velocity is divided by, and up to 0.75 step for the two rounded
\* components of the result
RoundingAllowance == 2 * Epsilon

Distance(ship, m) == Hypot(ship.x - m.x, ship.y - m.y)

\* C1 (speed cap): in every state of the run, so after every Autopilot
\* update and for every set of live meteors, the magnitude of the craft's
\* velocity is at most MAX_SPEED, up to the rounding allowance.
C1_SpeedCap ==
    spaceship.velocity_x * spaceship.velocity_x
      + spaceship.velocity_y * spaceship.velocity_y
        <= (Px(MAX_SPEED) + RoundingAllowance) * (Px(MAX_SPEED) + RoundingAllowance)

\* C1 witness: an update has just run with a meteor live in which the speed
\* before the limit exceeded MAX_SPEED, so the limit acted.
C1_Witness ==
    /\ pc = "track"
    /\ Len(meteors) > 0
    /\ auto.speed > Px(MAX_SPEED)

\* C2 (bounds containment): in the initial state and after every Autopilot
\* update the craft's position is within [SPACESHIP_SIZE, WIDTH -
\* SPACESHIP_SIZE] x [SPACESHIP_SIZE, HEIGHT - SPACESHIP_SIZE].
C2_InBounds ==
    /\ Px(SPACESHIP_SIZE) <= spaceship.x
    /\ spaceship.x <= Px(WIDTH - SPACESHIP_SIZE)
    /\ Px(SPACESHIP_SIZE) <= spaceship.y
    /\ spaceship.y <= Px(HEIGHT - SPACESHIP_SIZE)

\* C2 witness: an update has just run whose integrated position was beyond
\* the right bound, so the clamp acted.
C2_Witness ==
    /\ pc = "track"
    /\ auto.unclamped[1] > Px(WIDTH - SPACESHIP_SIZE)
    /\ spaceship.x = Px(WIDTH - SPACESHIP_SIZE)

\* C7 (obstacle culling): every meteor the Autopilot update, the tracker scan
\* and the collision check see lies inside the field expanded by METEOR_SIZE,
\* so a meteor that left it was removed in the same tick before the update;
\* and no removed meteor is in the live list again.
C7_Culling ==
    /\ pc \in {"avoid", "track", "collide"} =>
          \A i \in 1..Len(meteors) :
              /\ meteors[i].x >= -Px(METEOR_SIZE)
              /\ meteors[i].x <= Px(WIDTH + METEOR_SIZE)
              /\ meteors[i].y >= -Px(METEOR_SIZE)
              /\ meteors[i].y <= Px(HEIGHT + METEOR_SIZE)
    /\ \A i \in 1..Len(meteors) : meteors[i].id \notin culled

\* C7 witness: the advance has just removed a meteor beyond the bottom edge
\* while another meteor stays live.
C7_Witness ==
    /\ pc = "avoid"
    /\ culled # {}
    /\ Len(meteors) > 0

\* a direct call of avoid_meteors is this step
AvoidCalled == pc = "call" /\ calls' = Append(calls, "avoid_meteors")

\* a direct call of track_frame is this step
TrackCalled == pc = "call" /\ calls' = Append(calls, "track_frame")

\* a direct call of save_analytics is this step
SaveCalled == pc = "call" /\ calls' = Append(calls, "save_analytics")

AvoidanceOnly(ship, scan) ==
    LimitSpeed(ApplyAvoidance(<<ship.velocity_x, ship.velocity_y>>,
                              scan, Hypot(scan[1], scan[2])))

\* the velocity avoid_meteors leaves when no centering force is applied
VelocityWithoutCentering(ship, ms) ==
    AvoidanceOnly(ship, ThreatScan(ship, ms, 1, <<0, 0, FALSE, FALSE>>))

\* C3 as claimed: in every Autopilot update, if at least one meteor is at a
\* distance below DETECTION_RADIUS, no centering force is applied: the
\* velocity after the update is the one without centering.
C3_AsClaimed ==
    [][(AvoidCalled
        /\ \E i \in 1..Len(meteors) :
              Distance(spaceship, meteors[i]) < Px(DETECTION_RADIUS))
       => <<spaceship'.velocity_x, spaceship'.velocity_y>>
            = VelocityWithoutCentering(spaceship, meteors)]_vars

\* C3 amended: in every Autopilot update, if at least one meteor is at a
\* distance d with 0 < d < DETECTION_RADIUS, no centering force is applied;
\* a meteor at distance 0 is not counted as a threat.
C3_Exclusive ==
    [][(AvoidCalled
        /\ \E i \in 1..Len(meteors) :
              /\ Distance(spaceship, meteors[i]) < Px(DETECTION_RADIUS)
              /\ Distance(spaceship, meteors[i]) > 0)
       => <<spaceship'.velocity_x, spaceship'.velocity_y>>
            = VelocityWithoutCentering(spaceship, meteors)]_vars

\* C3 witness: an update has run on a craft away from the centre with a
\* meteor in range, so a centering force would have changed the velocity.
C3_Witness ==
    /\ calls = <<"avoid_meteors">>
    /\ auto.in_danger
    /\ \E i \in 1..Len(meteors) : meteors[i].x - spaceship.x > Px(30)
    /\ spaceship.x < Px(100)

InBand(ship, m) ==
    /\ Distance(ship, m) > Px(SPACESHIP_SIZE + METEOR_SIZE)
    /\ Distance(ship, m) < Px(DANGER_THRESHOLD)

\* the meteors of ms the scan must record, in list order
RECURSIVE BandOf(_, _)
BandOf(ship, ms) ==
    IF ms = <<>> THEN <<>>
    ELSE IF InBand(ship, Head(ms))
         THEN <<Head(ms)>> \o BandOf(ship, Tail(ms))
         ELSE BandOf(ship, Tail(ms))

\* C4 (near-miss emission range): a tracker scan keeps the stored events and
\* appends exactly one event for each meteor at a distance strictly between
\* 35 and danger_threshold, in list order, with that meteor's distance and
\* position, and none for any other meteor; an event just inside
\* danger_threshold is reported WARNING and a meteor at or beyond
\* danger_threshold gets no event.
C4_EmissionRange ==
    [][TrackCalled =>
        /\ SubSeq(tracker'.near_misses, 1, Len(tracker.near_misses))
             = tracker.near_misses
        /\ Len(tracker'.near_misses)
             = Len(tracker.near_misses) + Len(BandOf(spaceship, meteors))
        /\ \A k \in 1..Len(BandOf(spaceship, meteors)) :
             LET e == tracker'.near_misses[Len(tracker.near_misses) + k]
                 m == BandOf(spaceship, meteors)[k]
             IN  /\ e.distance = Distance(spaceship, m)
                 /\ e.meteor_position = <<m.x, m.y>>
                 /\ e.distance < Px(DANGER_THRESHOLD)
                 /\ e.distance >= Px(DANGER_THRESHOLD) - Epsilon
                      => Severity(tracker', e) = "WARNING"]_vars

\* C4 witness: one scan of a meteor just inside danger_threshold and a meteor
\* at danger_threshold has stored the event of the first and nothing else.
C4_Witness ==
    /\ calls = <<"track_frame">>
    /\ Len(meteors) = 2
    /\ Distance(spaceship, meteors[1]) = Px(DANGER_THRESHOLD) - Epsilon
    /\ Distance(spaceship, meteors[2]) = Px(DANGER_THRESHOLD)
    /\ Len(tracker.near_misses) = 1
    /\ tracker.near_misses[1].distance = Px(DANGER_THRESHOLD) - Epsilon

\* C5 as claimed: a meteor scanned at a distance just below
\* critical_threshold gets an event, and the report gives it CRITICAL.
C5_CriticalReported ==
    [][TrackCalled =>
        \A i \in 1..Len(meteors) :
            Distance(spaceship, meteors[i]) = tracker.critical_threshold - Epsilon
              => \E k \in Len(tracker.near_misses) + 1 .. Len(tracker'.near_misses) :
                    /\ tracker'.near_misses[k].distance
                         = Distance(spaceship, meteors[i])
                    /\ Analytics(tracker', now').near_misses[k].severity
                         = "CRITICAL"]_vars

\* the report without its live total_runtime field
Frozen(report) ==
    [total_near_misses |-> report.total_near_misses,
     near_misses |-> report.near_misses]

\* no track_frame call since the last save_analytics call
RECURSIVE SavedSinceTrack(_)
SavedSinceTrack(cs) ==
    /\ cs # <<>>
    /\ cs[Len(cs)] # "track_frame"
    /\ \/ cs[Len(cs)] = "save_analytics"
       \/ SavedSinceTrack(SubSeq(cs, 1, Len(cs) - 1))

\* C8 (report idempotence): building the report leaves the tracker's events
\* and thresholds as they were; and a report built after an earlier one with
\* no track_frame call between equals it in total_near_misses and in every
\* near_misses entry, severity included.
C8_ReportIdempotent ==
    [][SaveCalled =>
        /\ tracker'.near_misses = tracker.near_misses
        /\ tracker'.danger_threshold = tracker.danger_threshold
        /\ tracker'.critical_threshold = tracker.critical_threshold
        /\ SavedSinceTrack(calls) => Frozen(file') = Frozen(file)]_vars

\* C8 witness: a scan stored an event and the report was then built twice;
\* the two reports differ in total_runtime only.
C8_Witness ==
    /\ calls = <<"track_frame", "save_analytics", "save_analytics">>
    /\ file.total_near_misses > 0
    /\ file.total_runtime = 3

\* C6 as claimed: after the collision check of a tick, the run is terminal
\* if some meteor is at a distance <= SPACESHIP_SIZE + METEOR_SIZE (exactly
\* 35 included), and not terminal if every meteor is farther than that.
C6_CollisionBoundary ==
    pc = "events" =>
        /\ (\E i \in 1..Len(meteors) :
               Distance(spaceship, meteors[i]) <= Px(SPACESHIP_SIZE + METEOR_SIZE))
             => ~running
        /\ (\A i \in 1..Len(meteors) :
               Distance(spaceship, meteors[i]) > Px(SPACESHIP_SIZE + METEOR_SIZE))
             => running

InLoop == pc \in {"spawn", "update", "avoid", "track", "collide", "events"}

ShutdownEffects ==
    <<Effect("write", 0), Effect("wait", WAIT_MS), Effect("quit", 0)>>

\* C9 (termination, single report write): once the run status is terminal
\* it stays terminal and no tick starts; nothing is written or called on the
\* outside while the loop runs; the report is written once, after the loop,
\* from the tracker's events, then one wait of 3000 ms, then one quit.
C9_Shutdown ==
    /\ [][~running => (~running' /\ ~(pc' \in {"spawn", "update", "avoid",
                                               "track", "collide"}))]_vars
    /\ [](InLoop => (effects = <<>> /\ file = NoFile))
    /\ [](running => InLoop)
    /\ [](effects = SubSeq(ShutdownEffects, 1, Len(effects)))
    /\ [](pc = "done" => effects = ShutdownEffects)
    /\ [](file # NoFile => Frozen(file) = Frozen(Analytics(tracker, now)))
    /\ [][effects' # effects =>
            (Len(effects') = Len(effects) + 1 /\ ~running
             /\ pc \in {"save", "wait", "quit"})]_vars

\* C9 witness: a run that a collision ended has finished its shutdown.
C9_Witness ==
    /\ pc = "done"
    /\ Collides(spaceship, meteors)
    /\ effects = ShutdownEffects
    /\ file.total_near_misses > 0

\* C10 (fixed per-tick order): a tick goes spawn (at most one meteor
\* appended), advance and cull, Autopilot update, tracker scan, collision
\* check, each changing only its own objects; the events of a tick carry the
\* craft position and velocity left by that tick's update and the position of
\* a meteor as advanced in that tick; the collision check judges those same
\* positions; and once the run is terminal no event is added.
C10_TickOrder ==
    /\ [][/\ pc = "spawn" => pc' = "update"
          /\ pc = "update" => pc' = "avoid"
          /\ pc = "avoid" => pc' = "track"
          /\ pc = "track" => pc' = "collide"
          /\ pc = "collide" => pc' = "events"
          /\ pc = "events" => pc' \in {"spawn", "save"}]_vars
    /\ [][/\ meteors' # meteors => pc \in {"spawn", "update"}
          /\ pc = "spawn" =>
                /\ Len(meteors') <= Len(meteors) + 1
                /\ SubSeq(meteors', 1, Len(meteors)) = meteors
          /\ spaceship' # spaceship => pc = "avoid"
          /\ tracker' # tracker => pc = "track"
          /\ running' # running => pc \in {"collide", "events"}
          /\ ~running => tracker' = tracker]_vars
    /\ [](pc \in {"collide", "events"} =>
            \A k \in 1..Len(tracker.near_misses) :
                tracker.near_misses[k].timestamp = now =>
                    /\ tracker.near_misses[k].ship_position
                         = <<spaceship.x, spaceship.y>>
                    /\ tracker.near_misses[k].ship_velocity
                         = <<spaceship.velocity_x, spaceship.velocity_y>>
                    /\ \E i \in 1..Len(meteors) :
                          tracker.near_misses[k].meteor_position
                            = <<meteors[i].x, meteors[i].y>>)
    /\ [](pc = "events" =>
            (running <=> \A i \in 1..Len(meteors) :
                Distance(spaceship, meteors[i])
                  >= Px(SPACESHIP_SIZE + METEOR_SIZE)))

\* C10 witness: the collision check has just ended the run in a tick whose
\* scan had stored a near-miss event of another meteor.
C10_Witness ==
    /\ pc = "events"
    /\ ~running
    /\ \E k \in 1..Len(tracker.near_misses) :
          tracker.near_misses[k].timestamp = now

----------------------------------------------------------------------------
(* The end-to-end scenario: one Meteor, spawned on the left edge at         *)
(* (0, 300) with velocity (2, 0), and no other Meteor constructed.          *)

\* the run of the scenario: the only Meteor ever constructed is live, on the
\* line y = 300 with velocity (2, 0)
Scenario ==
    /\ next_id = 1
    /\ Len(meteors) = 1
    /\ meteors[1].y = Px(300)
    /\ meteors[1].velocity_x = Px(2)
    /\ meteors[1].velocity_y = 0

\* the collision check of this tick has just ended the run
TerminalCollision == pc = "events" /\ ~running

\* where the meteor of the scenario is when it hits the craft, pinned at the
\* right bound: the first x with WIDTH - SPACESHIP_SIZE - x < 35
ImpactX == Px(WIDTH - SPACESHIP_SIZE - SPACESHIP_SIZE - METEOR_SIZE) + Px(1)

\* the number of ticks of the scenario that store an event: the meteor
\* closes on the pinned craft by 2 pixels per tick from an even distance, so
\* one tick for each even distance strictly between 35 and danger_threshold
\* (48, 46, ..., 36)
ScenarioEvents ==
    Cardinality({d \in (SPACESHIP_SIZE + METEOR_SIZE + 1)..(DANGER_THRESHOLD - 1) :
                    d % 2 = 0})

\* C11 as claimed: in the scenario, when the terminal collision happens the
\* tracker holds exactly one near-miss event, registered before it.
C11_AsClaimed ==
    (Scenario /\ TerminalCollision) =>
        /\ Len(tracker.near_misses) = 1
        /\ tracker.near_misses[1].timestamp <= now

\* C11 amended: in the scenario the run ends in a terminal collision when the
\* meteor reaches ImpactX (unless it is stopped before), with the craft
\* pinned at the right bound; the craft stays on the meteor's line y = 300
\* throughout; and at the collision the tracker holds one event for each of
\* the ScenarioEvents consecutive ticks in which the meteor was between 35
\* and danger_threshold from the craft (at 48, 46, ..., 36), every one
\* registered in an earlier tick, reported WARNING, none CRITICAL.
C11_Scenario ==
    Scenario =>
        /\ meteors[1].x <= ImpactX
        /\ spaceship.y = Px(300)
        /\ (pc = "events" /\ meteors[1].x = ImpactX) => ~running
        /\ Len(tracker.near_misses) <= ScenarioEvents
        /\ TerminalCollision =>
             /\ Collides(spaceship, meteors)
             /\ spaceship.x = Px(WIDTH - SPACESHIP_SIZE)
             /\ Len(tracker.near_misses) = ScenarioEvents
             /\ \A k \in 1..Len(tracker.near_misses) :
                  /\ tracker.near_misses[k].timestamp < now
                  /\ tracker.near_misses[k].distance
                       = Px(DANGER_THRESHOLD) - k * meteors[1].velocity_x
                  /\ tracker.near_misses[k].distance
                       > Px(SPACESHIP_SIZE + METEOR_SIZE)
                  /\ tracker.near_misses[k].distance < Px(DANGER_THRESHOLD)
                  /\ Severity(tracker, tracker.near_misses[k]) = "WARNING"
                  /\ k > 1 => tracker.near_misses[k].timestamp
                                = tracker.near_misses[k - 1].timestamp + 1

\* C11 witness: the scenario has run into its terminal collision with the
\* events of the earlier ticks stored.
C11_Witness ==
    /\ Scenario
    /\ TerminalCollision
    /\ Collides(spaceship, meteors)
    /\ meteors[1].x = ImpactX
    /\ Len(tracker.near_misses) = ScenarioEvents

----------------------------------------------------------------------------
(* Divisions of avoid_meteors                                              *)

\* the threat scan of a whole list
Scan(ship, ms) == ThreatScan(ship, ms, 1, <<0, 0, FALSE, FALSE>>)

AwayFrom(ship, ms, i) ==
    IF Distance(ship, ms[i]) # 0 THEN <<ms[i]>> ELSE <<>>

\* the list without the meteors at the craft's own position
RECURSIVE Elsewhere(_, _, _)
Elsewhere(ship, ms, i) ==
    IF i > Len(ms) THEN <<>>
    ELSE AwayFrom(ship, ms, i) \o Elsewhere(ship, ms, i + 1)

AtCentre(ship) == ship.x = Px(WIDTH) \div 2 /\ ship.y = Px(HEIGHT) \div 2

Velocity(ship) == <<ship.velocity_x, ship.velocity_y>>

\* C12 (no division fault): no call of avoid_meteors, for any craft state and
\* any list of meteors, raises a division by zero; a meteor at distance 0 is
\* skipped by the threat scan (the scan gives what it gives without it); when
\* the accumulated avoidance vector is zero no avoidance is added; a craft
\* exactly at the centre with no threat keeps its velocity through the
\* centering; and the velocity is rescaled only when the speed exceeds
\* MAX_SPEED.
C12_NoDivisionFault ==
    /\ [](~auto.fault)
    /\ [][AvoidCalled =>
            /\ Scan(spaceship, meteors)
                 = Scan(spaceship, Elsewhere(spaceship, meteors, 1))
            /\ auto'.length = 0 =>
                 Velocity(spaceship')
                   = LimitSpeed(ApplyCentering(spaceship, Velocity(spaceship),
                                               auto'.in_danger))
            /\ (AtCentre(spaceship) /\ ~auto'.in_danger) =>
                 Velocity(spaceship') = LimitSpeed(Velocity(spaceship))
            /\ auto'.speed <= Px(MAX_SPEED) =>
                 Velocity(spaceship')
                   = Accelerate(spaceship, Scan(spaceship, meteors))]_vars

\* C12 witness: avoid_meteors has returned for a craft at rest exactly at
\* the centre whose only meteors sit at its own position: distance 0, a zero
\* avoidance vector, a zero vector to the centre and speed 0 all at once.
C12_Witness ==
    /\ calls = <<"avoid_meteors">>
    /\ Len(meteors) = 2
    /\ \A i \in 1..Len(meteors) : meteors[i].x = Px(400) /\ meteors[i].y = Px(300)
    /\ ~auto.in_danger
    /\ auto.length = 0
    /\ auto.speed = 0
    /\ ~auto.fault
    /\ spaceship = NewSpaceship

----------------------------------------------------------------------------
(* Cancelling threats                                                      *)

\* some meteor of ms is a threat, and the unit vectors away from the threats
\* sum to exactly zero
Cancelling(ship, ms) ==
    /\ \E i \in 1..Len(ms) :
          /\ Distance(ship, ms[i]) < Px(DETECTION_RADIUS)
          /\ Distance(ship, ms[i]) > 0
    /\ Scan(ship, ms)[1] = 0
    /\ Scan(ship, ms)[2] = 0

WithinMaxSpeed(ship) ==
    ship.velocity_x * ship.velocity_x + ship.velocity_y * ship.velocity_y
      <= Px(MAX_SPEED) * Px(MAX_SPEED)

\* C13 (cancelling threats): in a call of avoid_meteors with a meteor within
\* DETECTION_RADIUS and the unit vectors away from the threats summing to
\* exactly zero, on a craft within MAX_SPEED, neither an avoidance impulse
\* nor a centering force is applied: the velocity after the call is the
\* velocity before it, and the position is the old position plus that
\* velocity, then clamped.
C13_CancellingThreats ==
    [][(AvoidCalled /\ Cancelling(spaceship, meteors)
                    /\ WithinMaxSpeed(spaceship))
       => /\ auto'.in_danger
          /\ auto'.length = 0
          /\ Velocity(spaceship') = Velocity(spaceship)
          /\ auto'.unclamped = <<spaceship.x + spaceship.velocity_x,
                                 spaceship.y + spaceship.velocity_y>>
          /\ spaceship'.x = ClampX(spaceship.x + spaceship.velocity_x)
          /\ spaceship'.y = ClampY(spaceship.y + spaceship.velocity_y)]_vars

\* C13 witness: a moving craft away from the centre, with one meteor on its
\* right and one on its left, has been through the call: in danger, a zero
\* avoidance vector, and the position advanced by the kept velocity.
C13_Witness ==
    /\ calls = <<"avoid_meteors">>
    /\ auto.in_danger
    /\ auto.length = 0
    /\ Len(meteors) = 2
    /\ spaceship.velocity_x = 480
    /\ spaceship.velocity_y = 0
    /\ spaceship.x = Px(785) + 480
    /\ auto.unclamped = <<spaceship.x, spaceship.y>>

----------------------------------------------------------------------------
(* The event log                                                           *)

IsPrefix(a, b) == Len(a) <= Len(b) /\ SubSeq(b, 1, Len(a)) = a

\* C14 as claimed: in every step the stored events stay as they are, field
\* by field, and new events are only appended behind them; and the
\* timestamps of the stored events are non-decreasing in sequence order.
C14_AppendOnlyChronological ==
    /\ [][IsPrefix(tracker.near_misses, tracker'.near_misses)]_vars
    /\ [](\A k \in 1..Len(tracker.near_misses) :
            k > 1 => tracker.near_misses[k - 1].timestamp
                       <= tracker.near_misses[k].timestamp)

----------------------------------------------------------------------------
(* Motion of the meteors                                                   *)

\* the meteor m one tick later: the same object, the same velocity, the
\* position changed by the velocity
Drifted(m) ==
    [id |-> m.id, x |-> m.x + m.velocity_x, y |-> m.y + m.velocity_y,
     velocity_x |-> m.velocity_x, velocity_y |-> m.velocity_y]

\* C15 (obstacle motion frame): the advance of a tick leaves every meteor
\* either live at its old position plus its velocity, unclamped, or removed;
\* no step changes the velocity of a meteor; the Autopilot update, the
\* tracker scan and the collision check change no meteor, and the tracker
\* scan and the collision check change no field of the craft.
C15_MotionFrame ==
    /\ [][pc = "update" =>
            /\ \A i \in 1..Len(meteors) :
                  \/ \E j \in 1..Len(meteors') : meteors'[j] = Drifted(meteors[i])
                  \/ meteors[i].id \in culled'
            /\ \A j \in 1..Len(meteors') :
                  \E i \in 1..Len(meteors) : meteors'[j] = Drifted(meteors[i])]_vars
    /\ [][\A i \in 1..Len(meteors) : \A j \in 1..Len(meteors') :
            meteors[i].id = meteors'[j].id =>
                /\ meteors'[j].velocity_x = meteors[i].velocity_x
                /\ meteors'[j].velocity_y = meteors[i].velocity_y]_vars
    /\ [][(pc \in {"avoid", "track", "collide"}) => meteors' = meteors]_vars
    /\ [][(pc \in {"track", "collide"}) => spaceship' = spaceship]_vars

\* C15 witness: the advance has just moved a live meteor to a position
\* outside the field, where a clamp would have held it back, while the
\* craft has moved away from the centre.
C15_Witness ==
    /\ pc = "avoid"
    /\ \E i \in 1..Len(meteors) :
          \/ meteors[i].x < 0
          \/ meteors[i].y > Px(HEIGHT)
    /\ spaceship.x # Px(WIDTH) \div 2

----------------------------------------------------------------------------
(* Events and the collision                                                *)

\* the scan of the current tick stored an event for the meteor m
EventThisTick(m) ==
    \E k \in 1..Len(tracker.near_misses) :
        /\ tracker.near_misses[k].timestamp = now - tracker.start_time
        /\ tracker.near_misses[k].meteor_position = <<m.x, m.y>>
        /\ tracker.near_misses[k].meteor_velocity = <<m.velocity_x, m.velocity_y>>

\* C16 (event/collision exclusion): when the collision check of a tick runs,
\* no meteor that makes it end the run has an event from the scan of that
\* tick; the check ends the run only for such a meteor; and every event ever
\* stored has a distance strictly greater than SPACESHIP_SIZE + METEOR_SIZE
\* and strictly less than danger_threshold.
C16_EventCollisionExclusion ==
    /\ [](pc = "collide" =>
            \A i \in 1..Len(meteors) :
                ~(Collides(spaceship, <<meteors[i]>>) /\ EventThisTick(meteors[i])))
    /\ [][(pc = "collide" /\ running /\ ~running') =>
            \E i \in 1..Len(meteors) :
                /\ Collides(spaceship, <<meteors[i]>>)
                /\ ~EventThisTick(meteors[i])]_vars
    /\ [](\A k \in 1..Len(tracker.near_misses) :
            /\ tracker.near_misses[k].distance > Px(SPACESHIP_SIZE + METEOR_SIZE)
            /\ tracker.near_misses[k].distance < tracker.danger_threshold)

\* C16 witness: the collision check is about to run with one meteor closer
\* than 35 and another meteor for which the scan of this tick has stored an
\* event.
C16_Witness ==
    /\ pc = "collide"
    /\ running
    /\ \E i \in 1..Len(meteors) :
          Distance(spaceship, meteors[i]) < Px(SPACESHIP_SIZE + METEOR_SIZE)
    /\ \E j \in 1..Len(meteors) : EventThisTick(meteors[j])

----------------------------------------------------------------------------
(* The two tracker modules                                                 *)

\* a call of tracking.GameTracker.track_frame is this step
TrackingCalled == pc = "call" /\ calls' = Append(calls, "tracking.track_frame")

\* C17 as claimed: every call of tracking.GameTracker.track_frame on the
\* game's craft and meteors returns without an exception and leaves in the
\* tracker the events spaceship_game.GameTracker.track_frame leaves for the
\* same craft, meteors and time.
C17_TrackerEquivalence ==
    [][TrackingCalled =>
        /\ pc' = "call"
        /\ tracker'.near_misses
             = TrackFrame(tracker, spaceship, meteors, now').near_misses]_vars

====
